---- MODULE Spec2Model ----
(***************************************************************************)
(* A model of the relay client of src/src/bundlr.rs: the funding workflow  *)
(* (Bundlr::fund), bundle submission (Bundlr::send_transaction) and the    *)
(* balance query (Bundlr::get_balance / get_balance_public).               *)
(*                                                                         *)
(* The currency backend (crate::currency::Currency), the confirmation      *)
(* poller (crate::transaction::poll::ConfirmationPoll) and                 *)
(* crate::utils::check_and_return are used by bundlr.rs but their code is  *)
(* not among the sources; they are modelled from the specification text    *)
(* and the way bundlr.rs calls them.                                       *)
(***************************************************************************)
EXTENDS Integers, Sequences, FiniteSets, TLC

\* ------------------------------------------------------------------ bounds
MaxCalls == 2      \* operations one client performs in a behaviour
MaxPolls == 3      \* status queries one await_confirmation may issue
MaxAmount == 1     \* fund amounts are 0..MaxAmount
MaxFee == 1        \* get_fee answers are 0..MaxFee
MaxLen == 2        \* length of the relay's balance string

\* The backend's confirmation policy constant (minimum confirmation count).
Threshold == 2

\* ------------------------------------------------------------ value spaces
ChainTypes == {"Arweave", "solana"}
AddressKeys == {"arweave", "solana", "Arweave"}
TxIds == {"tx1", "tx2"}
Multipliers == {0, 2}          \* Option<f64>: 0 stands for None, 2 for Some(2.0)
Statuses == {200, 500}
Chars == {"0", "1", "9", "a", "-"}
Digits == {"0", "1", "2", "3", "4", "5", "6", "7", "8", "9"}
NoId == "-"
NoAddr == "-"

\* String::to_lowercase on the chain-type names.
to_lowercase(s) ==
    CASE s = "Arweave" -> "arweave"
      [] s = "Solana" -> "solana"
      [] OTHER -> s

\* The deposit address the relay publishes under a key.
AddressBook(k) ==
    CASE k = "arweave" -> "addr-arweave"
      [] k = "solana" -> "addr-solana"
      [] OTHER -> "addr-Arweave"

VARIABLES addresses, currency_type, needs_fee, op, pc, amount, multiplier, to,
          fee, tx_res, calls, statuses, poll, resp, balance, result,
          failed_step, ncalls

vars == <<addresses, currency_type, needs_fee, op, pc, amount, multiplier, to,
          fee, tx_res, calls, statuses, poll, resp, balance, result,
          failed_step, ncalls>>

config == <<addresses, currency_type, needs_fee>>
fund_locals == <<amount, multiplier, to, fee, tx_res>>

\* ----------------------------------------------------------------- results
NoResult == [kind |-> "none", val |-> -1, cause |-> "", step |-> ""]
Ok(v) == [kind |-> "ok", val |-> v, cause |-> "", step |-> ""]
Err(c) == [kind |-> "err", val |-> -1, cause |-> c, step |-> ""]
Panic(msg) == [kind |-> "panic", val |-> -1, cause |-> msg, step |-> ""]

\* One interaction with the backend or the relay.
Call(name, id, f, a) == [call |-> name, id |-> id, fee |-> f, to |-> a]

\* --------------------------------------------------------- check_and_return
Responses == [status : Statuses, wellformed : BOOLEAN]
NoResponse == [status |-> 0, wellformed |-> FALSE]

is_success(status) == status >= 200 /\ status < 300

\* Non-2xx or an unparsable body is a RelayError; the error is made from the
\* response alone.
check_and_return(response) ==
    IF ~is_success(response.status) THEN Err("status")
    ELSE IF ~response.wellformed THEN Err("malformed")
    ELSE Ok(0)

\* Result::map(|_| true): an Ok becomes Ok(true), an Err passes unchanged.
map_true(r) == IF r.kind = "ok" THEN Ok(1) ELSE r

\* --------------------------------------------------------------------- Init
Init ==
    /\ addresses \in SUBSET AddressKeys
    /\ currency_type \in ChainTypes
    /\ needs_fee \in BOOLEAN
    /\ op = "none"
    /\ pc = "idle"
    /\ amount = 0
    /\ multiplier = 0
    /\ to = NoAddr
    /\ fee = 0
    /\ tx_res = NoId
    /\ calls = <<>>
    /\ statuses = <<>>
    /\ poll = "idle"
    /\ resp = NoResponse
    /\ balance = <<>>
    /\ result = NoResult
    /\ failed_step = "none"
    /\ ncalls = 0

\* --------------------------------------------------------------------- fund
\* Option::unwrap_or(1.0)
unwrap_or_one(m) == IF m = 0 THEN 1 ELSE m

\* A faulty lookup: the chain type is not lower-cased first.
lookup_address_unlowered ==
    IF currency_type \in addresses THEN AddressBook(currency_type) ELSE NoAddr

\* HashMap::get on PubInfo.addresses with the lower-cased chain type:
\* the address, or NoAddr for None.
lookup_address ==
    IF to_lowercase(currency_type) \in addresses
    THEN AddressBook(to_lowercase(currency_type))
    ELSE NoAddr

\* fund, up to the address lookup: .expect panics on a missing entry.
fund_lookup(a, m) ==
    /\ op = "none"
    /\ ncalls < MaxCalls
    /\ op' = "fund"
    /\ ncalls' = ncalls + 1
    /\ amount' = a
    /\ multiplier' = unwrap_or_one(m)
    /\ IF lookup_address = NoAddr
       THEN /\ result' = Panic("Address should not be empty")
            /\ failed_step' = "lookup"
            /\ pc' = "done"
            /\ to' = to
       ELSE /\ to' = lookup_address
            /\ pc' = "fee"
            /\ UNCHANGED <<result, failed_step>>
    /\ UNCHANGED <<config, fee, tx_res, calls, statuses, poll, resp, balance>>

\* A faulty fee step: get_fee is called whatever needs_fee() says.
fee_always_estimated(f) ==
    [fee |-> f, calls |-> <<Call("get_fee", NoId, f, to)>>]

\* The fee and the backend calls made to get it, for a get_fee answer f.
fee_step(f) ==
    IF needs_fee
    THEN [fee |-> f, calls |-> <<Call("get_fee", NoId, f, to)>>]
    ELSE [fee |-> 0, calls |-> <<>>]

fund_fee(f) ==
    /\ op = "fund"
    /\ pc = "fee"
    /\ ~needs_fee => f = 0
    /\ fee' = fee_step(f).fee
    /\ calls' = calls \o fee_step(f).calls
    /\ pc' = "create"
    /\ UNCHANGED <<config, op, amount, multiplier, to, tx_res, statuses, poll,
                   resp, balance, result, failed_step, ncalls>>

\* Currency::create_tx: a zero amount is a ConstructionError.
create_tx_fails(a) == a = 0

\* create_tx's value goes to send_tx unexamined: a failure inside create_tx
\* can only unwind through fund.
fund_create_tx ==
    /\ op = "fund"
    /\ pc = "create"
    /\ calls' = Append(calls, Call("create_tx", NoId, fee, to))
    /\ IF create_tx_fails(amount)
       THEN /\ result' = Panic("ConstructionError")
            /\ failed_step' = "create_tx"
            /\ pc' = "done"
       ELSE /\ pc' = "send"
            /\ UNCHANGED <<result, failed_step>>
    /\ UNCHANGED <<config, op, fund_locals, statuses, poll, resp, balance,
                   ncalls>>

\* send_tx answers with the id the chain assigned, or with a ChainError,
\* on which .expect panics.
ChainError == "ChainError"

fund_send_tx(r) ==
    /\ op = "fund"
    /\ pc = "send"
    /\ IF r = ChainError
       THEN /\ calls' = Append(calls, Call("send_tx", NoId, fee, to))
            /\ result' = Panic("Error while sending transaction")
            /\ failed_step' = "send_tx"
            /\ pc' = "done"
            /\ UNCHANGED <<tx_res, poll>>
       ELSE /\ calls' = Append(calls, Call("send_tx", r, fee, to))
            /\ tx_res' = r
            /\ pc' = "await"
            /\ poll' = "polling"
            /\ UNCHANGED <<result, failed_step>>
    /\ UNCHANGED <<config, op, amount, multiplier, to, fee, statuses, resp,
                   balance, ncalls>>

\* ------------------------------------------------------ await_confirmation
\* What one get_tx_status query can answer: a confirmation count, or a
\* ChainError that is "not yet found" or "permanently invalid".
Status(n) == [kind |-> "status", confirmations |-> n]
NotFound == [kind |-> "not_found", confirmations |-> 0]
Fatal == [kind |-> "fatal", confirmations |-> 0]
StatusAnswers == {Status(n) : n \in 0..(Threshold + 1)} \cup {NotFound, Fatal}

\* A faulty loop turn: it returns one confirmation short of the threshold.
poll_step_eager(a) ==
    CASE a.kind = "status" /\ a.confirmations >= Threshold - 1 -> "confirmed"
      [] a.kind = "fatal" -> "failed"
      [] OTHER -> "polling"

\* One turn of the poller's loop on the answer a: return once the threshold
\* is reached, fail on a fatal error, otherwise sleep and query again.
poll_step(a) ==
    CASE a.kind = "status" /\ a.confirmations >= Threshold -> "confirmed"
      [] a.kind = "fatal" -> "failed"
      [] OTHER -> "polling"

await_confirmation(a) ==
    /\ op = "fund"
    /\ pc = "await"
    /\ poll = "polling"
    /\ Len(statuses) < MaxPolls
    /\ statuses' = Append(statuses, a)
    /\ calls' = Append(calls, Call("get_tx_status", tx_res, fee, to))
    /\ poll' = poll_step(a)
    /\ UNCHANGED <<config, op, pc, fund_locals, resp, balance, result,
                   failed_step, ncalls>>

\* A faulty fund: it does not wait for the poller to return.
after_await_unawaited(p) ==
    IF p = "failed" THEN "unwind" ELSE "notify"

\* A faulty fund: it goes on to notify the relay when the poller failed.
after_await_caught(p) ==
    CASE p = "confirmed" -> "notify"
      [] p = "failed" -> "notify"
      [] OTHER -> "await"

\* Where fund goes from the await of the poller: await_confirmation yields
\* no value, so fund goes on when it returns and unwinds when it fails.
after_await(p) ==
    CASE p = "confirmed" -> "notify"
      [] p = "failed" -> "unwind"
      [] OTHER -> "await"

fund_await ==
    /\ op = "fund"
    /\ pc = "await"
    /\ after_await(poll) # "await"
    /\ IF after_await(poll) = "unwind"
       THEN /\ result' = Panic("confirmation failed")
            /\ failed_step' = "confirmation"
            /\ pc' = "done"
       ELSE /\ pc' = "notify"
            /\ UNCHANGED <<result, failed_step>>
    /\ UNCHANGED <<config, op, fund_locals, calls, statuses, poll, resp,
                   balance, ncalls>>

\* format!("{{\"tx_id\":{}}}", id), and the id a reader of the body finds.
FundBody(id) == <<"{\"tx_id\":", id, "}">>
body_tx_id(b) == b[2]

\* A faulty notify: the body carries the deposit address, not the tx id.
notify_requests_with_address ==
    <<Call("notify", body_tx_id(FundBody(to)), fee, to)>>

\* The requests fund sends to POST account/balance/{chain-type}.
notify_requests ==
    <<Call("notify", body_tx_id(FundBody(tx_res)), fee, to)>>

fund_notify(r) ==
    /\ op = "fund"
    /\ pc = "notify"
    /\ calls' = calls \o notify_requests
    /\ resp' = r
    /\ result' = map_true(check_and_return(r))
    /\ failed_step' = IF check_and_return(r).kind = "err" THEN "notify"
                      ELSE failed_step
    /\ pc' = "done"
    /\ UNCHANGED <<config, op, fund_locals, statuses, poll, balance, ncalls>>

\* --------------------------------------------------------- send_transaction
\* A faulty send_transaction: the bundle is posted again after a failure.
send_transaction_resending(r) ==
    IF check_and_return(r).kind = "err"
    THEN <<Call("post_tx", NoId, 0, currency_type),
           Call("post_tx", NoId, 0, currency_type)>>
    ELSE <<Call("post_tx", NoId, 0, currency_type)>>

\* The requests one send_transaction call sends for the relay's answer r:
\* one POST tx/{chain-type} carrying the bundle.
send_transaction_requests(r) ==
    <<Call("post_tx", NoId, 0, currency_type)>>

send_transaction(r) ==
    /\ op = "none"
    /\ ncalls < MaxCalls
    /\ op' = "send_transaction"
    /\ ncalls' = ncalls + 1
    /\ calls' = send_transaction_requests(r)
    /\ resp' = r
    /\ result' = check_and_return(r)
    /\ pc' = "done"
    /\ UNCHANGED <<config, fund_locals, statuses, poll, balance, failed_step>>

\* -------------------------------------------------------------- get_balance
Strings == UNION {[1..n -> Chars] : n \in 0..MaxLen}

DigitValue(c) ==
    CASE c = "0" -> 0 [] c = "1" -> 1 [] c = "2" -> 2 [] c = "3" -> 3
      [] c = "4" -> 4 [] c = "5" -> 5 [] c = "6" -> 6 [] c = "7" -> 7
      [] c = "8" -> 8 [] OTHER -> 9

RECURSIVE DecimalValue(_)
DecimalValue(s) ==
    IF s = <<>> THEN 0
    ELSE 10 * DecimalValue(SubSeq(s, 1, Len(s) - 1)) + DigitValue(s[Len(s)])

IsDecimal(s) == s # <<>> /\ \A i \in 1..Len(s) : s[i] \in Digits

\* BigUint::from_str: the value of a non-empty string of decimal digits, an
\* error for anything else.
from_str(s) ==
    IF IsDecimal(s) THEN Ok(DecimalValue(s)) ELSE Err("ParseBigIntError")

\* Result::expect
expect(r, msg) == IF r.kind = "ok" THEN r ELSE Panic(msg)

\* Result::map(|d| BigUint::from_str(&d.balance).expect(..)) on the checked
\* response whose body holds the balance string s.
map_balance(r, s) ==
    IF r.kind = "ok"
    THEN expect(from_str(s), "Error converting from u128 to BigUint")
    ELSE r

get_balance_public(r, s) ==
    /\ op = "none"
    /\ ncalls < MaxCalls
    /\ check_and_return(r).kind # "ok" => s = <<>>
    /\ op' = "get_balance"
    /\ ncalls' = ncalls + 1
    /\ calls' = <<Call("get_balance", NoId, 0, currency_type)>>
    /\ resp' = r
    /\ balance' = s
    /\ result' = map_balance(check_and_return(r), s)
    /\ pc' = "done"
    /\ UNCHANGED <<config, fund_locals, statuses, poll, failed_step>>

\* ------------------------------------------------------------------- caller
\* The caller takes the operation's result; the client is ready for the next.
Return ==
    /\ pc = "done"
    /\ op' = "none"
    /\ pc' = "idle"
    /\ amount' = 0
    /\ multiplier' = 0
    /\ to' = NoAddr
    /\ fee' = 0
    /\ tx_res' = NoId
    /\ calls' = <<>>
    /\ statuses' = <<>>
    /\ poll' = "idle"
    /\ resp' = NoResponse
    /\ balance' = <<>>
    /\ result' = NoResult
    /\ failed_step' = "none"
    /\ UNCHANGED <<config, ncalls>>

Next ==
    \/ \E a \in 0..MaxAmount, m \in Multipliers : fund_lookup(a, m)
    \/ \E f \in 0..MaxFee : fund_fee(f)
    \/ fund_create_tx
    \/ \E r \in TxIds \cup {ChainError} : fund_send_tx(r)
    \/ \E a \in StatusAnswers : await_confirmation(a)
    \/ fund_await
    \/ \E r \in Responses : fund_notify(r)
    \/ \E r \in Responses : send_transaction(r)
    \/ \E r \in Responses, s \in Strings : get_balance_public(r, s)
    \/ Return

Spec == Init /\ [][Next]_vars

\* =================================================================== claims
CallsNamed(name) == {i \in 1..Len(calls) : calls[i].call = name}
Reached(a) == a.kind = "status" /\ a.confirmations >= Threshold
\* The answer to the get_tx_status query logged at position j.
AnswerOf(j) == statuses[Cardinality({k \in 1..j : calls[k].call = "get_tx_status"})]
RelayAcked == is_success(resp.status) /\ resp.wellformed
FundEnded == op = "fund" /\ pc = "done"

\* C1: the relay-notify request is never sent before a get_tx_status query
\* for the id send_tx returned has answered with confirmations >= Threshold.
C1_NotifyAfterConfirmation ==
    \A i \in CallsNamed("notify") :
        \E j \in CallsNamed("get_tx_status"), s \in CallsNamed("send_tx") :
            /\ s < j /\ j < i
            /\ calls[j].id = calls[s].id
            /\ Reached(AnswerOf(j))

C1_Witness ==
    /\ CallsNamed("notify") # {}
    /\ Len(statuses) = MaxPolls
    /\ ~Reached(statuses[1])

\* C2: fund returns true only if the relay acknowledged the notify request,
\* and a failure at any step ends fund with an error result returned to the
\* caller (never true, never a panic, never swallowed).
C2_FailureIsErrorResult ==
    FundEnded =>
        /\ result.kind \in {"ok", "err"}
        /\ result.kind = "ok" =>
               result.val = 1 /\ RelayAcked /\ CallsNamed("notify") # {}
        /\ failed_step # "none" => result.kind = "err"

\* C3: await_confirmation returns only on the first answer that reaches the
\* threshold: after exactly the k-th query when the first k-1 answers are
\* below it, and no query follows.
C3_ResolvesAtFirstConfirmed ==
    /\ poll = "confirmed" =>
           /\ statuses # <<>>
           /\ Reached(statuses[Len(statuses)])
    /\ \A k \in 1..Len(statuses) :
           Reached(statuses[k]) => k = Len(statuses) /\ poll = "confirmed"
    /\ Cardinality(CallsNamed("get_tx_status")) = Len(statuses)

C3_Witness ==
    /\ statuses = <<Status(0), Status(0), Status(Threshold)>>
    /\ poll = "confirmed"

\* C4: after a fatal answer the poller queries no more and fails, and fund
\* ends in failure without sending the relay-notify request; a "not yet
\* found" answer leaves the poller polling.
C4_FatalStopsAndPropagates ==
    /\ \A k \in 1..Len(statuses) :
           statuses[k] = Fatal =>
               /\ k = Len(statuses)
               /\ poll = "failed"
               /\ CallsNamed("notify") = {}
               /\ pc \in {"await", "done"}
               /\ pc = "done" =>
                      result.kind = "panic" /\ failed_step = "confirmation"
    /\ (statuses # <<>> /\ statuses[Len(statuses)] = NotFound) =>
           poll = "polling" /\ pc = "await" /\ result = NoResult

C4_Witness ==
    /\ Len(statuses) >= 2
    /\ statuses[1] = NotFound
    /\ statuses[Len(statuses)] = Fatal
    /\ FundEnded

\* C5: a failure of fund after the chain transaction was sent (confirmation
\* or relay notify) is told apart from one before it was sent: the error
\* fund returns names the step that failed.
C5_ErrorNamesStep ==
    (FundEnded /\ failed_step # "none") =>
        IF failed_step \in {"confirmation", "notify"}
        THEN result.step = failed_step
        ELSE result.step \notin {"confirmation", "notify"}

\* C6: a send_transaction call sends exactly one POST tx/{chain-type}; a
\* non-2xx status or a malformed body gives an error and no second POST.
C6_OnePostPerCall ==
    (op = "send_transaction" /\ pc = "done") =>
        /\ Cardinality(CallsNamed("post_tx")) = 1
        /\ Len(calls) = 1
        /\ ~RelayAcked => result.kind = "err"
        /\ RelayAcked => result.kind = "ok"

C6_Witness ==
    /\ op = "send_transaction"
    /\ pc = "done"
    /\ resp.status = 500
    /\ result.kind = "err"

\* C7: for a successful response {"balance": s}, get_balance returns the
\* integer value of s when s is a decimal string ("10" gives 10) and an error
\* result, not a panic, when s is malformed.
C7_BalanceParsesOrErrs ==
    (op = "get_balance" /\ pc = "done" /\ RelayAcked) =>
        /\ balance = <<"1", "0">> => result = Ok(10)
        /\ IsDecimal(balance) => result.kind = "ok" /\ result.val >= 0
        /\ ~IsDecimal(balance) => result.kind = "err"

\* C8: with needs_fee() false, fund never calls get_fee, gives create_tx a
\* fee of zero, and makes its calls in the order create_tx, send_tx,
\* get_tx_status (repeated), notify, all of them when it returns true.
Rank(name) ==
    CASE name = "create_tx" -> 1
      [] name = "send_tx" -> 2
      [] name = "get_tx_status" -> 3
      [] name = "notify" -> 4
      [] OTHER -> 0

C8_ZeroFeeWorkflow ==
    (op = "fund" /\ ~needs_fee) =>
        /\ CallsNamed("get_fee") = {}
        /\ \A i \in CallsNamed("create_tx") : calls[i].fee = 0
        /\ \A i, j \in 1..Len(calls) :
               i < j =>
                   \/ Rank(calls[i].call) < Rank(calls[j].call)
                   \/ Rank(calls[i].call) = 3 /\ Rank(calls[j].call) = 3
        /\ (pc = "done" /\ result.kind = "ok") =>
               \A n \in {"create_tx", "send_tx", "get_tx_status", "notify"} :
                   CallsNamed(n) # {}

C8_Witness ==
    /\ FundEnded
    /\ ~needs_fee
    /\ result = Ok(1)
    /\ Len(calls) > 4

\* C9: when PubInfo.addresses has no entry under the lower-cased chain type,
\* fund fails at once: no backend call and no relay request is made.
C9_MissingAddressIsFatal ==
    (op = "fund" /\ to_lowercase(currency_type) \notin addresses) =>
        /\ pc = "done"
        /\ result.kind = "panic"
        /\ failed_step = "lookup"
        /\ calls = <<>>

C9_Witness ==
    /\ FundEnded
    /\ currency_type = "Arweave"
    /\ addresses = {"Arweave", "solana"}
    /\ result.kind = "panic"
    /\ calls = <<>>

\* C10: one fund call makes at most one send_tx and at most one notify
\* request; the notify request carries the id send_tx returned, which is the
\* id every status query asked about.
C10_OneTxOneNotifySameId ==
    op = "fund" =>
        /\ Cardinality(CallsNamed("send_tx")) <= 1
        /\ Cardinality(CallsNamed("notify")) <= 1
        /\ \A i \in CallsNamed("notify") \cup CallsNamed("get_tx_status") :
               \E s \in CallsNamed("send_tx") :
                   s < i /\ calls[s].id \in TxIds /\ calls[i].id = calls[s].id

C10_Witness ==
    /\ op = "fund"
    /\ CallsNamed("notify") # {}
    /\ Len(statuses) >= 2
    /\ tx_res = "tx2"

====
